---------------------------- MODULE Spec2Model ----------------------------
(***************************************************************************)
(* A model of netpipe-rs: the address validator (network.rs,               *)
(* is_valid_address) and the TCP/UDP server and client engines             *)
(* (network.rs, run_server / run_client) with the subprocess sink          *)
(* (command.rs, execute_command).                                          *)
(*                                                                         *)
(* Text is modelled by TLA+ strings, read one character at a time with     *)
(* SubSeq.  Byte buffers are modelled run-length encoded (see BLen below)  *)
(* so that buffers of 65535 and 65536 bytes can be handled.  The network   *)
(* part models IPv4 endpoints, as in the repository's tests.  The IPv6     *)
(* inputs of the validator stay clear of the ranges on which releases of   *)
(* the standard library's unstable is_global disagree (2002::/16,          *)
(* 3fff::/20, 5f00::/16, 2001:30::/28).                                    *)
(***************************************************************************)
EXTENDS Integers, Sequences, FiniteSets, TLC

VARIABLES
    \* ---- address validation (network.rs 12-22) ----
    address,        \* the textual address handed to is_valid_address
    version,        \* the version argument (u8)
    vpc,            \* "input" before the call, "done" after it
    valid,          \* the value is_valid_address returned
    \* ---- one run of main (main.rs 16-60) ----
    margs,          \* the Args it parsed: [address, port, ip_version, protocol,
                    \* listen]
    mpc,            \* where main is in its code; "off" if no main is running
    mres,           \* what main returned: "none" while it runs
    called,         \* the engines main has invoked, in order
    \* ---- configuration (args.rs 6-35, main.rs 27, 48-51) ----
    protocol,       \* "tcp" or "udp", the same for the server and the clients
    sargs,          \* the server's Args: [timeout, exec, file]
    cargs,          \* the clients' Args: [timeout, file]
    \* ---- the server process (run_server) ----
    spc,            \* where the server is in its code
    sres,           \* what run_server returned: "none" while it runs
    bound,          \* the server's listener / socket is bound
    backlog,        \* TCP: established connections not yet accepted
    accept_errs,    \* TCP: accept errors so far
    cur,            \* TCP: the connection being handled, 0 if none;
                    \* UDP: the sender of the datagram received
    rd_timeout,     \* the read timeout set on the current stream / socket
    waited,         \* TCP: seconds the read in progress has been blocked
    handled_for,    \* TCP: seconds spent blocked since the connection was
                    \* accepted
    sbuf,           \* the server's buffer
    amt,            \* UDP: the byte count recv_from returned
    nrecv,          \* UDP: completed recv_from calls
    outcome,        \* per connection: what the TCP handler returned
    log,            \* the error! lines, in order
    sink,           \* everything done to a sink, in order
    file,           \* the file at the server's args.file path
    \* ---- the network ----
    conns,          \* TCP connections, one per client
    socketq,        \* UDP: datagrams queued at the server's socket
    sent,           \* UDP: per client, the datagram it put on the network
    \* ---- the client processes (run_client) ----
    cpc,            \* where each client is in its code
    cbuf,           \* each client's outbound buffer
    coff,           \* TCP: bytes of cbuf written so far
    cres            \* what run_client returned: "none" while it runs

avars == <<address, version, vpc, valid>>

mvars == <<margs, mpc, mres, called>>

cfgvars == <<protocol, sargs, cargs>>

clock == <<waited, handled_for>>

svars == <<spc, sres, bound, backlog, accept_errs, cur, rd_timeout, sbuf, amt,
           nrecv, outcome, log, sink, file, clock>>

netvars == <<conns, socketq, sent>>

cvars == <<cpc, cbuf, coff, cres>>

nvars == <<cfgvars, svars, netvars, cvars>>

vars == <<avars, mvars, nvars>>

-----------------------------------------------------------------------------
(***************************************************************************)
(* Text helpers                                                            *)
(***************************************************************************)

Ch(s, i) == SubSeq(s, i, i)

DecDigits == {"0", "1", "2", "3", "4", "5", "6", "7", "8", "9"}

HexDigits == DecDigits \cup {"a", "b", "c", "d", "e", "f",
                             "A", "B", "C", "D", "E", "F"}

\* The value of one digit character in radix 16 (char::to_digit).
DigitVal(c) ==
    CASE c = "0" -> 0  [] c = "1" -> 1  [] c = "2" -> 2  [] c = "3" -> 3
      [] c = "4" -> 4  [] c = "5" -> 5  [] c = "6" -> 6  [] c = "7" -> 7
      [] c = "8" -> 8  [] c = "9" -> 9
      [] c \in {"a", "A"} -> 10  [] c \in {"b", "B"} -> 11
      [] c \in {"c", "C"} -> 12  [] c \in {"d", "D"} -> 13
      [] c \in {"e", "E"} -> 14  [] c \in {"f", "F"} -> 15

AllIn(s, chars) == \A i \in 1..Len(s) : Ch(s, i) \in chars

\* The number a digit string denotes in the given radix.
RECURSIVE NumVal(_, _)
NumVal(s, radix) ==
    IF Len(s) = 0 THEN 0
    ELSE NumVal(SubSeq(s, 1, Len(s) - 1), radix) * radix + DigitVal(Ch(s, Len(s)))

\* The fields of s between occurrences of the one-character separator sep.
RECURSIVE Split(_, _)
Split(s, sep) ==
    IF \A i \in 1..Len(s) : Ch(s, i) # sep THEN <<s>>
    ELSE LET i == CHOOSE k \in 1..Len(s) :
                      /\ Ch(s, k) = sep
                      /\ \A j \in 1..(k - 1) : Ch(s, j) # sep
         IN  <<SubSeq(s, 1, i - 1)>> \o Split(SubSeq(s, i + 1, Len(s)), sep)

-----------------------------------------------------------------------------
(***************************************************************************)
(* str::parse::<Ipv4Addr>(): four decimal fields separated by '.', each of *)
(* one to three digits, without a leading zero, of value at most 255; the  *)
(* whole string is consumed.  The result is the four octets, or None.      *)
(***************************************************************************)

\* Option<T>
None == [some |-> FALSE, v |-> <<>>]

Some(x) == [some |-> TRUE, v |-> x]

Ipv4Field(f) ==
    /\ Len(f) \in 1..3
    /\ AllIn(f, DecDigits)
    /\ (Len(f) > 1 => Ch(f, 1) # "0")
    /\ NumVal(f, 10) <= 255

parse_Ipv4Addr(s) ==
    LET fs == Split(s, ".")
    IN  IF Len(fs) = 4 /\ \A i \in 1..4 : Ipv4Field(fs[i])
        THEN Some([i \in 1..4 |-> NumVal(fs[i], 10)])
        ELSE None

(***************************************************************************)
(* The Ipv4Addr predicates of the standard library that is_global uses.    *)
(***************************************************************************)

v4_is_private(o) ==
    \/ o[1] = 10
    \/ o[1] = 172 /\ o[2] \in 16..31
    \/ o[1] = 192 /\ o[2] = 168

v4_is_shared(o) == o[1] = 100 /\ o[2] \in 64..127

v4_is_loopback(o) == o[1] = 127

v4_is_link_local(o) == o[1] = 169 /\ o[2] = 254

v4_is_documentation(o) ==
    \/ o[1] = 192 /\ o[2] = 0 /\ o[3] = 2
    \/ o[1] = 198 /\ o[2] = 51 /\ o[3] = 100
    \/ o[1] = 203 /\ o[2] = 0 /\ o[3] = 113

v4_is_benchmarking(o) == o[1] = 198 /\ o[2] \in 18..19

v4_is_broadcast(o) == \A i \in 1..4 : o[i] = 255

v4_is_reserved(o) == o[1] \in 240..255 /\ ~v4_is_broadcast(o)

\* Ipv4Addr::is_global
v4_is_global(o) ==
    ~ \/ o[1] = 0
      \/ v4_is_private(o)
      \/ v4_is_shared(o)
      \/ v4_is_loopback(o)
      \/ v4_is_link_local(o)
      \/ (o[1] = 192 /\ o[2] = 0 /\ o[3] = 0 /\ o[4] # 9 /\ o[4] # 10)
      \/ v4_is_documentation(o)
      \/ v4_is_benchmarking(o)
      \/ v4_is_reserved(o)
      \/ v4_is_broadcast(o)

(***************************************************************************)
(* str::parse::<Ipv6Addr>(): up to eight groups of one to four hex digits  *)
(* separated by ':', with at most one "::" standing for one or more zero   *)
(* groups; the last group may be an embedded dotted-quad IPv4 address      *)
(* (two groups), but not in front of a "::".  The result is the eight      *)
(* 16-bit segments, or None.                                               *)
(***************************************************************************)

\* The position of the first "::" in s, or 0.
DoubleColon(s) ==
    LET hits == {i \in 1..(Len(s) - 1) : Ch(s, i) = ":" /\ Ch(s, i + 1) = ":"}
    IN  IF hits = {} THEN 0 ELSE CHOOSE i \in hits : \A j \in hits : i <= j

HexGroup(f) == Len(f) \in 1..4 /\ AllIn(f, HexDigits)

\* The groups of a ':'-separated run ("" is the empty run); None if malformed.
\* allow_v4: whether the last field may be an embedded IPv4 address.
read_groups(s, allow_v4) ==
    IF Len(s) = 0 THEN Some(<<>>)
    ELSE LET fs == Split(s, ":")
             n  == Len(fs)
             v4 == IF allow_v4 THEN parse_Ipv4Addr(fs[n]) ELSE None
         IN  IF v4.some
             THEN IF \A i \in 1..(n - 1) : HexGroup(fs[i])
                  THEN Some([i \in 1..(n - 1) |-> NumVal(fs[i], 16)]
                            \o <<v4.v[1] * 256 + v4.v[2], v4.v[3] * 256 + v4.v[4]>>)
                  ELSE None
             ELSE IF \A i \in 1..n : HexGroup(fs[i])
                  THEN Some([i \in 1..n |-> NumVal(fs[i], 16)])
                  ELSE None

parse_Ipv6Addr(s) ==
    LET dc == DoubleColon(s)
    IN  IF dc = 0
        THEN LET g == read_groups(s, TRUE)
             IN  IF g.some /\ Len(g.v) = 8 THEN g ELSE None
        ELSE LET head == read_groups(SubSeq(s, 1, dc - 1), FALSE)
                 tail == read_groups(SubSeq(s, dc + 2, Len(s)), TRUE)
             IN  IF head.some /\ tail.some /\ Len(head.v) + Len(tail.v) <= 7
                 THEN Some(head.v
                           \o [i \in 1..(8 - Len(head.v) - Len(tail.v)) |-> 0]
                           \o tail.v)
                 ELSE None

(***************************************************************************)
(* The Ipv6Addr predicates of the standard library that is_global uses.    *)
(***************************************************************************)

v6_is_unspecified(g) == \A i \in 1..8 : g[i] = 0

v6_is_loopback(g) == g[8] = 1 /\ \A i \in 1..7 : g[i] = 0

\* 2001:db8::/32
v6_is_documentation(g) == g[1] = 8193 /\ g[2] = 3512

\* fc00::/7
v6_is_unique_local(g) == g[1] \in 64512..65023

\* fe80::/10
v6_is_unicast_link_local(g) == g[1] \in 65152..65215

\* The globally reachable exceptions inside 2001::/23.
v6_ietf_exception(g) ==
    \/ g[2] = 1 /\ (\A i \in 3..7 : g[i] = 0) /\ g[8] \in {1, 2}
    \/ g[2] = 3
    \/ g[2] = 4 /\ g[3] = 274
    \/ g[2] \in 32..47

\* Ipv6Addr::is_global
v6_is_global(g) ==
    ~ \/ v6_is_unspecified(g)
      \/ v6_is_loopback(g)
      \/ ((\A i \in 1..5 : g[i] = 0) /\ g[6] = 65535)
      \/ (g[1] = 100 /\ g[2] = 65435 /\ g[3] = 1)
      \/ (g[1] = 256 /\ g[2] = 0 /\ g[3] = 0 /\ g[4] = 0)
      \/ (g[1] = 8193 /\ g[2] < 512 /\ ~v6_ietf_exception(g))
      \/ v6_is_documentation(g)
      \/ v6_is_unique_local(g)
      \/ v6_is_unicast_link_local(g)

-----------------------------------------------------------------------------
(***************************************************************************)
(* network.rs 12-22                                                        *)
(***************************************************************************)

is_valid_address(addr, ver) ==
    CASE ver = 4 -> LET ip == parse_Ipv4Addr(addr)
                    IN  IF ip.some THEN v4_is_global(ip.v) ELSE FALSE
      [] ver = 6 -> LET ip == parse_Ipv6Addr(addr)
                    IN  IF ip.some THEN v6_is_global(ip.v) ELSE FALSE
      [] OTHER   -> FALSE

-----------------------------------------------------------------------------
(***************************************************************************)
(* Byte buffers (Vec<u8>), run-length encoded: a sequence of runs          *)
(* [b |-> byte, n |-> count] with n >= 1 and no two adjacent runs of the   *)
(* same byte, so that equal byte strings have equal encodings.             *)
(***************************************************************************)

RECURSIVE BLen(_)
BLen(buf) == IF buf = <<>> THEN 0 ELSE buf[1].n + BLen(Tail(buf))

\* a followed by b
BCat(a, b) ==
    IF a = <<>> THEN b
    ELSE IF b = <<>> THEN a
    ELSE IF a[Len(a)].b = b[1].b
         THEN SubSeq(a, 1, Len(a) - 1)
              \o <<[b |-> b[1].b, n |-> a[Len(a)].n + b[1].n]>>
              \o Tail(b)
         ELSE a \o b

\* the first k bytes of buf (all of it if it is shorter)
RECURSIVE BTake(_, _)
BTake(buf, k) ==
    IF k <= 0 \/ buf = <<>> THEN <<>>
    ELSE IF buf[1].n >= k THEN <<[b |-> buf[1].b, n |-> k]>>
    ELSE <<buf[1]>> \o BTake(Tail(buf), k - buf[1].n)

\* buf without its first k bytes
RECURSIVE BDrop(_, _)
BDrop(buf, k) ==
    IF k <= 0 \/ buf = <<>> THEN buf
    ELSE IF buf[1].n > k THEN <<[b |-> buf[1].b, n |-> buf[1].n - k]>> \o Tail(buf)
    ELSE BDrop(Tail(buf), k - buf[1].n)

\* vec![0u8; n]
Zeros(n) == IF n = 0 THEN <<>> ELSE <<[b |-> 0, n |-> n]>>

\* Vec::truncate
truncate(buf, len) == BTake(buf, len)

Min(a, b) == IF a < b THEN a ELSE b

-----------------------------------------------------------------------------
(***************************************************************************)
(* Bounds and inputs                                                       *)
(***************************************************************************)

\* run_client invocations in one behaviour
MaxClients == 2

\* accept errors the listener reports in one behaviour
MaxAcceptErrs == 1

Clients == 1..MaxClients

\* the receive buffer of handle_udp_connection
UdpBufSize == 65535

\* the largest payload of one UDP datagram over IPv4 (65535 - 20 - 8): the
\* operating system refuses a longer send_to with EMSGSIZE
MaxUdpPayload == 65507

\* Duration::from_secs(args.timeout), in seconds: the default, and a value
\* that leaves a second between the start of a read and its timeout
Timeouts == {0, 2}

\* a buffer of n bytes, none of them zero
Data(n) ==
    IF n = 0 THEN <<>>
    ELSE IF n = 1 THEN <<[b |-> 104, n |-> 1]>>
    ELSE <<[b |-> 104, n |-> 1], [b |-> 105, n |-> n - 1]>>

\* what a client's file or standard input may hold: for a datagram, the
\* lengths around the two size limits, and one buffer that ends in a zero
\* byte; for a stream, short buffers and one longer than any datagram
Buffers(proto) ==
    IF proto = "udp"
    THEN {Data(n) : n \in {0, 1, 2, MaxUdpPayload, MaxUdpPayload + 1,
                           UdpBufSize, UdpBufSize + 1}}
         \cup {<<[b |-> 104, n |-> 1], [b |-> 0, n |-> 1]>>}
    ELSE {Data(n) : n \in {0, 1, 2, UdpBufSize + 1}}

\* The sizes one read or write call may transfer when n bytes are waiting:
\* all of them, or a single byte if this is the first call (so that a buffer
\* crosses the stream in one or two pieces).
Pieces(n, first) == IF first /\ n > 1 THEN {1, n} ELSE {n}

\* a TCP connection nobody has opened
NoConn == [state |-> "none", c2s |-> <<>>, cli_open |-> FALSE, srv_open |-> FALSE]

NoFile == [exists |-> FALSE, data |-> <<>>]

-----------------------------------------------------------------------------
(***************************************************************************)
(* Sinks: network.rs 26-36 and 63-72, command.rs 8-27                      *)
(***************************************************************************)

Ev(kind, conn, data) == [kind |-> kind, conn |-> conn, data |-> data]

\* the events that carry received data into a sink
DataKinds == {"stdin", "fwrite", "stdout"}

\* the two tests in the other order: the file before the subprocess
ChosenSink_file_first(a) ==
    IF a.file THEN "file" ELSE IF a.exec THEN "exec" ELSE "stdout"

\* if let Some(command) = &args.exec .. else if let Some(file_path) = &args.file
ChosenSink(a) ==
    IF a.exec THEN "exec" ELSE IF a.file THEN "file" ELSE "stdout"

\* how the operations on a sink may end
SinkOutcomes(k) ==
    CASE k = "exec"   -> {"ok", "spawn_err", "stdin_err", "wait_err"}
      [] k = "file"   -> {"ok", "create_err", "write_err"}
      [] k = "stdout" -> {"ok", "write_err"}

\* execute_command after its read_to_end: stdin.write_all, wait_with_output,
\* then the child's output relayed to stdout and stderr
execute_command_tail(conn, data, o) ==
    CASE o = "stdin_err" -> <<>>
      [] o = "wait_err"  -> <<Ev("stdin", conn, data)>>
      [] o = "ok"        -> <<Ev("stdin", conn, data), Ev("relay", conn, <<>>)>>

\* execute_command on an input that does not block (io::Cursor)
execute_command(conn, data, o) ==
    IF o = "spawn_err" THEN <<>>
    ELSE <<Ev("spawn", conn, <<>>)>> \o execute_command_tail(conn, data, o)

\* File::create then write_all
write_file(conn, data, o) ==
    CASE o = "create_err" -> <<>>
      [] o = "write_err"  -> <<Ev("create", conn, <<>>)>>
      [] o = "ok"         -> <<Ev("create", conn, <<>>), Ev("fwrite", conn, data)>>

\* io::stdout().write_all
write_stdout(conn, data, o) ==
    IF o = "ok" THEN <<Ev("stdout", conn, data)>> ELSE <<>>

\* a file opened for appending: create leaves what is there, a write adds
\* to it
RECURSIVE FileAfter_append(_, _)
FileAfter_append(f, evs) ==
    IF evs = <<>> THEN f
    ELSE FileAfter_append(
             CASE evs[1].kind = "create" -> [exists |-> TRUE, data |-> f.data]
               [] evs[1].kind = "fwrite" ->
                     [exists |-> TRUE, data |-> BCat(f.data, evs[1].data)]
               [] OTHER -> f,
             Tail(evs))

\* the file after the events evs
RECURSIVE FileAfter(_, _)
FileAfter(f, evs) ==
    IF evs = <<>> THEN f
    ELSE FileAfter(CASE evs[1].kind = "create" -> [exists |-> TRUE, data |-> <<>>]
                     [] evs[1].kind = "fwrite" -> [exists |-> TRUE, data |-> evs[1].data]
                     [] OTHER -> f,
                   Tail(evs))

-----------------------------------------------------------------------------
(***************************************************************************)
(* The server: run_server, network.rs 82-92                                *)
(***************************************************************************)

\* a run_server that sets the read timeout on its UDP socket right after the
\* bind, before the receive
run_server_timeout_first ==
    /\ spc = "run_server"
    /\ \/ /\ protocol \in {"tcp", "udp"}
          /\ bound' = TRUE
          /\ spc' = IF protocol = "tcp" THEN "accept" ELSE "recv_from"
          /\ rd_timeout' = IF protocol = "udp" THEN sargs.timeout ELSE rd_timeout
          /\ sres' = sres
       \/ /\ protocol \in {"tcp", "udp"}
          /\ bound' = bound
          /\ spc' = "returned"
          /\ sres' = "AddrInUse"
          /\ rd_timeout' = rd_timeout
       \/ /\ protocol \notin {"tcp", "udp"}
          /\ bound' = bound
          /\ spc' = "returned"
          /\ sres' = "Invalid protocol"
          /\ rd_timeout' = rd_timeout
    /\ UNCHANGED <<backlog, accept_errs, cur, sbuf, amt, nrecv,
                   outcome, log, sink, file>>
    /\ UNCHANGED clock
    /\ UNCHANGED <<avars, mvars, cfgvars, netvars, cvars>>

\* the match on protocol, lines 87-91, then TcpListener::bind /
\* UdpSocket::bind and the `?` on its failure
run_server ==
    /\ spc = "run_server"
    /\ \/ /\ protocol \in {"tcp", "udp"}
          /\ bound' = TRUE
          /\ spc' = IF protocol = "tcp" THEN "accept" ELSE "recv_from"
          /\ sres' = sres
       \/ /\ protocol \in {"tcp", "udp"}
          /\ bound' = bound
          /\ spc' = "returned"
          /\ sres' = "AddrInUse"
       \/ /\ protocol \notin {"tcp", "udp"}
          /\ bound' = bound
          /\ spc' = "returned"
          /\ sres' = "Invalid protocol"
    /\ UNCHANGED <<backlog, accept_errs, cur, rd_timeout, sbuf, amt, nrecv,
                   outcome, log, sink, file>>
    /\ UNCHANGED clock
    /\ UNCHANGED <<avars, mvars, cfgvars, netvars, cvars>>

(***************************************************************************)
(* run_tcp_server, network.rs 41-55                                        *)
(***************************************************************************)

\* handle_tcp_connection(stream, args, timeout)? in the loop: an Err leaves
\* the loop and run_server
tcp_handled_propagates(res) ==
    /\ outcome' = [outcome EXCEPT ![cur] = res]
    /\ log' = log
    /\ conns' = [conns EXCEPT ![cur].srv_open = FALSE, ![cur].c2s = <<>>]
    /\ cur' = 0
    /\ sbuf' = <<>>
    /\ rd_timeout' = 0
    /\ waited' = 0
    /\ handled_for' = 0
    /\ spc' = IF res = "ok" THEN "accept" ELSE "returned"
    /\ sres' = IF res = "ok" THEN sres ELSE res

\* a loop that is left after the first connection handled
tcp_handled_once(res) ==
    /\ outcome' = [outcome EXCEPT ![cur] = res]
    /\ log' = IF res = "ok" THEN log
              ELSE Append(log, [msg |-> "Failed to handle connection", conn |-> cur])
    /\ conns' = [conns EXCEPT ![cur].srv_open = FALSE, ![cur].c2s = <<>>]
    /\ cur' = 0
    /\ sbuf' = <<>>
    /\ rd_timeout' = 0
    /\ waited' = 0
    /\ handled_for' = 0
    /\ spc' = "returned"
    /\ sres' = "ok"

\* What run_tcp_server does with the value handle_tcp_connection returned
\* (lines 47-49): log an Err, drop the stream, go on with the next
\* connection.
tcp_handled(res) ==
    /\ outcome' = [outcome EXCEPT ![cur] = res]
    /\ log' = IF res = "ok" THEN log
              ELSE Append(log, [msg |-> "Failed to handle connection", conn |-> cur])
    /\ conns' = [conns EXCEPT ![cur].srv_open = FALSE, ![cur].c2s = <<>>]
    /\ cur' = 0
    /\ sbuf' = <<>>
    /\ rd_timeout' = 0
    /\ waited' = 0
    /\ handled_for' = 0
    /\ spc' = "accept"
    /\ sres' = sres

\* a server that accepts whenever a connection is waiting, whether or not it
\* is handling one
accept_ok_any_time ==
    /\ spc \in {"accept", "set_read_timeout", "read", "route"}
    /\ backlog # <<>>
    /\ cur' = Head(backlog)
    /\ backlog' = Tail(backlog)
    /\ spc' = "set_read_timeout"
    /\ UNCHANGED <<sres, bound, accept_errs, rd_timeout, sbuf, amt, nrecv,
                   outcome, log, sink, file>>
    /\ UNCHANGED clock
    /\ UNCHANGED <<avars, mvars, cfgvars, netvars, cvars>>

\* listener.incoming() yields Ok(stream)
accept_ok ==
    /\ spc = "accept"
    /\ backlog # <<>>
    /\ cur' = Head(backlog)
    /\ backlog' = Tail(backlog)
    /\ spc' = "set_read_timeout"
    /\ UNCHANGED <<sres, bound, accept_errs, rd_timeout, sbuf, amt, nrecv,
                   outcome, log, sink, file>>
    /\ UNCHANGED clock
    /\ UNCHANGED <<avars, mvars, cfgvars, netvars, cvars>>

\* listener.incoming() yields Err(e), line 51
accept_err ==
    /\ spc = "accept"
    /\ accept_errs < MaxAcceptErrs
    /\ accept_errs' = accept_errs + 1
    /\ log' = Append(log, [msg |-> "Failed to accept connection", conn |-> 0])
    /\ UNCHANGED <<spc, sres, bound, backlog, cur, rd_timeout, sbuf, amt, nrecv,
                   outcome, sink, file>>
    /\ UNCHANGED clock
    /\ UNCHANGED <<avars, mvars, cfgvars, netvars, cvars>>

(***************************************************************************)
(* handle_tcp_connection, network.rs 24-39                                 *)
(***************************************************************************)

\* stream.set_read_timeout(Some(timeout))?: the standard library returns an
\* Err for Some(Duration::ZERO); then the branch on args.exec
tcp_set_read_timeout ==
    /\ spc = "set_read_timeout"
    /\ \/ /\ sargs.timeout = 0
          /\ tcp_handled("InvalidInput")
          /\ UNCHANGED sink
       \/ /\ sargs.timeout # 0
          /\ ChosenSink(sargs) # "exec"
          /\ rd_timeout' = sargs.timeout
          /\ sbuf' = <<>>
          /\ spc' = "read"
          /\ UNCHANGED <<sink, outcome, log, conns, cur, sres, clock>>
       \* execute_command: Command::spawn()? succeeds
       \/ /\ sargs.timeout # 0
          /\ ChosenSink(sargs) = "exec"
          /\ rd_timeout' = sargs.timeout
          /\ sbuf' = <<>>
          /\ spc' = "read"
          /\ sink' = Append(sink, Ev("spawn", cur, <<>>))
          /\ UNCHANGED <<outcome, log, conns, cur, sres, clock>>
       \* execute_command: Command::spawn()? fails
       \/ /\ sargs.timeout # 0
          /\ ChosenSink(sargs) = "exec"
          /\ tcp_handled("SinkError")
          /\ UNCHANGED sink
    /\ UNCHANGED <<bound, backlog, accept_errs, amt, nrecv, file>>
    /\ UNCHANGED <<avars, mvars, cfgvars, socketq, sent, cvars>>

\* a read on a stream that has no read timeout: it may block for ever
tcp_read_wait_unbounded ==
    /\ spc = "read"
    /\ conns[cur].c2s = <<>>
    /\ conns[cur].cli_open
    /\ waited' = waited + 1
    /\ handled_for' = handled_for + 1
    /\ UNCHANGED <<spc, sres, bound, backlog, accept_errs, cur, rd_timeout, sbuf,
                   amt, nrecv, outcome, log, sink, file>>
    /\ UNCHANGED <<avars, mvars, cfgvars, netvars, cvars>>

\* a second passes while a read of read_to_end is blocked: the peer has the
\* connection open and nothing is waiting
tcp_read_wait ==
    /\ spc = "read"
    /\ conns[cur].c2s = <<>>
    /\ conns[cur].cli_open
    /\ waited < rd_timeout
    /\ waited' = waited + 1
    /\ handled_for' = handled_for + 1
    /\ UNCHANGED <<spc, sres, bound, backlog, accept_errs, cur, rd_timeout, sbuf,
                   amt, nrecv, outcome, log, sink, file>>
    /\ UNCHANGED <<avars, mvars, cfgvars, netvars, cvars>>

\* a read timeout that runs from the first read of the connection: a read
\* that returns bytes leaves the time already waited as it was
tcp_read_one_deadline ==
    /\ spc = "read"
    /\ conns[cur].c2s # <<>>
    /\ \E k \in Pieces(BLen(conns[cur].c2s), sbuf = <<>>) :
          /\ sbuf' = BCat(sbuf, BTake(conns[cur].c2s, k))
          /\ conns' = [conns EXCEPT ![cur].c2s = BDrop(conns[cur].c2s, k)]
    /\ waited' = waited
    /\ handled_for' = handled_for
    /\ UNCHANGED <<spc, sres, bound, backlog, accept_errs, cur, rd_timeout, amt,
                   nrecv, outcome, log, sink, file>>
    /\ UNCHANGED <<avars, mvars, cfgvars, socketq, sent, cvars>>

\* one read of read_to_end that returns some bytes; the next read starts,
\* with the whole timeout ahead of it
tcp_read ==
    /\ spc = "read"
    /\ conns[cur].c2s # <<>>
    /\ \E k \in Pieces(BLen(conns[cur].c2s), sbuf = <<>>) :
          /\ sbuf' = BCat(sbuf, BTake(conns[cur].c2s, k))
          /\ conns' = [conns EXCEPT ![cur].c2s = BDrop(conns[cur].c2s, k)]
    /\ waited' = 0
    /\ handled_for' = handled_for
    /\ UNCHANGED <<spc, sres, bound, backlog, accept_errs, cur, rd_timeout, amt,
                   nrecv, outcome, log, sink, file>>
    /\ UNCHANGED <<avars, mvars, cfgvars, socketq, sent, cvars>>

\* the read of read_to_end that returns 0: the peer has closed
tcp_read_eof ==
    /\ spc = "read"
    /\ conns[cur].c2s = <<>>
    /\ ~conns[cur].cli_open
    /\ spc' = "route"
    /\ UNCHANGED <<sres, bound, backlog, accept_errs, cur, rd_timeout, sbuf, amt,
                   nrecv, outcome, log, sink, file>>
    /\ UNCHANGED clock
    /\ UNCHANGED <<avars, mvars, cfgvars, netvars, cvars>>

\* a read that has waited for the whole read timeout: read_to_end returns
\* the error and the bytes read so far are dropped with the buffer
tcp_read_timeout ==
    /\ spc = "read"
    /\ conns[cur].c2s = <<>>
    /\ conns[cur].cli_open
    /\ rd_timeout > 0
    /\ waited = rd_timeout
    /\ tcp_handled("TimedOut")
    /\ UNCHANGED <<bound, backlog, accept_errs, amt, nrecv, sink, file>>
    /\ UNCHANGED <<avars, mvars, cfgvars, socketq, sent, cvars>>

\* a read that fails (connection reset)
tcp_read_err ==
    /\ spc = "read"
    /\ tcp_handled("ConnectionReset")
    /\ UNCHANGED <<bound, backlog, accept_errs, amt, nrecv, sink, file>>
    /\ UNCHANGED <<avars, mvars, cfgvars, socketq, sent, cvars>>

\* lines 26-37 after the read: the buffer goes to the sink
tcp_route ==
    /\ spc = "route"
    /\ LET k == ChosenSink(sargs)
       IN  \E o \in SinkOutcomes(k) \ {"spawn_err"} :
              LET evs == CASE k = "exec"   -> execute_command_tail(cur, sbuf, o)
                           [] k = "file"   -> write_file(cur, sbuf, o)
                           [] k = "stdout" -> write_stdout(cur, sbuf, o)
              IN  /\ sink' = sink \o evs
                  /\ file' = FileAfter(file, evs)
                  /\ tcp_handled(IF o = "ok" THEN "ok" ELSE "SinkError")
    /\ UNCHANGED <<bound, backlog, accept_errs, amt, nrecv>>
    /\ UNCHANGED <<avars, mvars, cfgvars, socketq, sent, cvars>>

(***************************************************************************)
(* run_udp_server and handle_udp_connection, network.rs 57-80              *)
(***************************************************************************)

\* What run_server returns in UDP mode; the socket is dropped.
udp_return(res) ==
    /\ sres' = res
    /\ spc' = "returned"
    /\ bound' = FALSE

\* socket.recv_from(&mut buffer)?: blocks until a datagram is queued; the
\* datagram is copied to the front of vec![0u8; 65535]
udp_recv_from ==
    /\ spc = "recv_from"
    /\ socketq # <<>>
    /\ LET d == Head(socketq)
           n == Min(BLen(d.data), UdpBufSize)
       IN  /\ amt' = n
           /\ sbuf' = BCat(BTake(d.data, n), BDrop(Zeros(UdpBufSize), n))
           /\ cur' = d.from
    /\ socketq' = Tail(socketq)
    /\ nrecv' = nrecv + 1
    /\ spc' = "udp_set_read_timeout"
    /\ UNCHANGED <<sres, bound, backlog, accept_errs, rd_timeout, outcome, log,
                   sink, file>>
    /\ UNCHANGED clock
    /\ UNCHANGED <<avars, mvars, cfgvars, conns, sent, cvars>>

\* socket.set_read_timeout(Some(timeout))?; buffer.truncate(amt)
udp_set_read_timeout ==
    /\ spc = "udp_set_read_timeout"
    /\ IF sargs.timeout = 0
       THEN /\ udp_return("InvalidInput")
            /\ UNCHANGED <<rd_timeout, sbuf>>
       ELSE /\ rd_timeout' = sargs.timeout
            /\ sbuf' = truncate(sbuf, amt)
            /\ spc' = "udp_route"
            /\ UNCHANGED <<sres, bound>>
    /\ UNCHANGED <<backlog, accept_errs, cur, amt, nrecv, outcome, log, sink, file>>
    /\ UNCHANGED clock
    /\ UNCHANGED <<avars, mvars, cfgvars, netvars, cvars>>

\* lines 63-73: the datagram goes to the sink, and the handler returns
udp_route ==
    /\ spc = "udp_route"
    /\ LET k == ChosenSink(sargs)
       IN  \E o \in SinkOutcomes(k) :
              LET evs == CASE k = "exec"   -> execute_command(cur, sbuf, o)
                           [] k = "file"   -> write_file(cur, sbuf, o)
                           [] k = "stdout" -> write_stdout(cur, sbuf, o)
              IN  /\ sink' = sink \o evs
                  /\ file' = FileAfter(file, evs)
                  /\ udp_return(IF o = "ok" THEN "ok" ELSE "SinkError")
    /\ UNCHANGED <<backlog, accept_errs, cur, rd_timeout, sbuf, amt, nrecv,
                   outcome, log>>
    /\ UNCHANGED clock
    /\ UNCHANGED <<avars, mvars, cfgvars, netvars, cvars>>

-----------------------------------------------------------------------------
(***************************************************************************)
(* The clients: run_client, network.rs 122-134                             *)
(***************************************************************************)

\* What run_client returns; a TCP stream it holds is dropped (closed).
client_return(c, res) ==
    /\ cres' = [cres EXCEPT ![c] = res]
    /\ cpc' = [cpc EXCEPT ![c] = "done"]

\* a client that opens its connection first and reads its input afterwards
prepare_buffer_connected(c) ==
    /\ cpc[c] = "run_client"
    /\ \A d \in Clients : d < c => cpc[d] # "run_client"
    /\ conns' = [conns EXCEPT ![c] = [state |-> "established", c2s |-> <<>>,
                                       cli_open |-> TRUE, srv_open |-> TRUE]]
    /\ \/ /\ \E b \in Buffers(protocol) : cbuf' = [cbuf EXCEPT ![c] = b]
          /\ cpc' = [cpc EXCEPT ![c] = CASE protocol = "tcp" -> "connect"
                                         [] protocol = "udp" -> "udp_bind"
                                         [] OTHER -> "done"]
          /\ cres' = IF protocol \in {"tcp", "udp"} THEN cres
                     ELSE [cres EXCEPT ![c] = "Invalid protocol"]
       \/ /\ cargs.file
          /\ client_return(c, "NotFound")
          /\ cbuf' = cbuf
    /\ UNCHANGED <<coff, avars, mvars, cfgvars, svars, socketq, sent>>

\* prepare_buffer_from_file_or_stdin, lines 94-106: the whole file or the
\* whole standard input; File::open may fail. Then the match on protocol,
\* lines 129-133.
prepare_buffer(c) ==
    /\ cpc[c] = "run_client"
    \* the clients are alike: they start in the order of their numbers
    /\ \A d \in Clients : d < c => cpc[d] # "run_client"
    /\ \/ /\ \E b \in Buffers(protocol) : cbuf' = [cbuf EXCEPT ![c] = b]
          /\ cpc' = [cpc EXCEPT ![c] = CASE protocol = "tcp" -> "connect"
                                         [] protocol = "udp" -> "udp_bind"
                                         [] OTHER -> "done"]
          /\ cres' = IF protocol \in {"tcp", "udp"} THEN cres
                     ELSE [cres EXCEPT ![c] = "Invalid protocol"]
       \/ /\ cargs.file
          /\ client_return(c, "NotFound")
          /\ cbuf' = cbuf
    /\ UNCHANGED <<coff, avars, mvars, cfgvars, svars, netvars>>

\* TcpStream::connect(destination)?, line 109: the connection is established
\* by the listener's backlog, before any accept
tcp_connect(c) ==
    /\ cpc[c] = "connect"
    /\ IF bound
       THEN /\ conns' = [conns EXCEPT ![c] = [state |-> "established", c2s |-> <<>>,
                                              cli_open |-> TRUE, srv_open |-> TRUE]]
            /\ backlog' = Append(backlog, c)
            /\ cpc' = [cpc EXCEPT ![c] = "set_write_timeout"]
            /\ cres' = cres
       ELSE /\ client_return(c, "ConnectionRefused")
            /\ UNCHANGED <<conns, backlog>>
    /\ UNCHANGED <<cbuf, coff, avars, mvars, cfgvars, socketq, sent>>
    /\ UNCHANGED <<spc, sres, bound, accept_errs, cur, rd_timeout, sbuf, amt,
                   nrecv, outcome, log, sink, file, clock>>

\* a peer that is not run_client: it connects, and then neither sends nor
\* closes
peer_idle(c) ==
    /\ cpc[c] = "run_client"
    /\ \A d \in Clients : d < c => cpc[d] # "run_client"
    /\ protocol = "tcp"
    /\ bound
    /\ conns' = [conns EXCEPT ![c] = [state |-> "established", c2s |-> <<>>,
                                       cli_open |-> TRUE, srv_open |-> TRUE]]
    /\ backlog' = Append(backlog, c)
    /\ cpc' = [cpc EXCEPT ![c] = "idle"]
    /\ UNCHANGED <<cbuf, coff, cres, avars, mvars, cfgvars, socketq, sent>>
    /\ UNCHANGED <<spc, sres, bound, accept_errs, cur, rd_timeout, sbuf, amt,
                   nrecv, outcome, log, sink, file, clock>>

\* UdpSocket::bind("0.0.0.0:0")?, line 116
udp_bind(c) ==
    /\ cpc[c] = "udp_bind"
    /\ cpc' = [cpc EXCEPT ![c] = "set_write_timeout"]
    /\ UNCHANGED <<cbuf, coff, cres, avars, mvars, cfgvars, svars,
                   netvars>>

\* set_write_timeout(Some(timeout))?, lines 110 and 117: the standard library
\* returns an Err for Some(Duration::ZERO)
set_write_timeout(c) ==
    /\ cpc[c] = "set_write_timeout"
    /\ IF cargs.timeout = 0
       THEN /\ client_return(c, "InvalidInput")
            /\ conns' = IF protocol = "tcp"
                        THEN [conns EXCEPT ![c].cli_open = FALSE]
                        ELSE conns
       ELSE /\ cpc' = [cpc EXCEPT ![c] = IF protocol = "tcp" THEN "write_all"
                                         ELSE "send_to"]
            /\ UNCHANGED <<cres, conns>>
    /\ UNCHANGED <<cbuf, coff, avars, mvars, cfgvars, svars, socketq, sent>>

\* one write of stream.write_all(&buffer)?, line 111
tcp_write(c) ==
    /\ cpc[c] = "write_all"
    /\ coff[c] < BLen(cbuf[c])
    /\ \E k \in Pieces(BLen(cbuf[c]) - coff[c], coff[c] = 0) :
          \/ /\ conns[c].srv_open
             /\ conns' = [conns EXCEPT ![c].c2s =
                             BCat(@, BTake(BDrop(cbuf[c], coff[c]), k))]
             /\ coff' = [coff EXCEPT ![c] = @ + k]
             /\ UNCHANGED <<cpc, cres>>
          \* the server has dropped the stream: the bytes are discarded ...
          \/ /\ ~conns[c].srv_open
             /\ coff' = [coff EXCEPT ![c] = @ + k]
             /\ UNCHANGED <<conns, cpc, cres>>
    /\ UNCHANGED <<cbuf, avars, mvars, cfgvars, svars, socketq, sent>>

\* ... or the write fails; and a write that waits longer than the write
\* timeout for the server to read fails too
tcp_write_err(c) ==
    /\ cpc[c] = "write_all"
    /\ coff[c] < BLen(cbuf[c])
    /\ \/ /\ ~conns[c].srv_open
          /\ client_return(c, "BrokenPipe")
       \/ /\ conns[c].srv_open
          /\ conns[c].c2s # <<>>
          /\ client_return(c, "TimedOut")
    /\ conns' = [conns EXCEPT ![c].cli_open = FALSE]
    /\ UNCHANGED <<cbuf, coff, avars, mvars, cfgvars, svars, socketq, sent>>

\* write_all has written everything: Ok(()), line 112, and the stream is
\* dropped
tcp_client_done(c) ==
    /\ cpc[c] = "write_all"
    /\ coff[c] = BLen(cbuf[c])
    /\ client_return(c, "ok")
    /\ conns' = [conns EXCEPT ![c].cli_open = FALSE]
    /\ UNCHANGED <<cbuf, coff, avars, mvars, cfgvars, svars, socketq, sent>>

\* the destination is an IPv6 address: the one main validated as such
DestinationV6 == mpc # "off" /\ margs.ip_version = "V6"

\* socket.send_to(&buffer, destination)?, line 118: one datagram, which the
\* operating system refuses if the destination is not an IPv4 address (the
\* socket is bound to 0.0.0.0) or if it is too long; a datagram sent is
\* queued at the server's socket if there is one, or lost
udp_send_to(c) ==
    /\ cpc[c] = "send_to"
    /\ IF DestinationV6
       THEN /\ client_return(c, "AddrFamilyNotSupported")
            /\ UNCHANGED <<sent, socketq>>
       ELSE IF BLen(cbuf[c]) > MaxUdpPayload
       THEN /\ client_return(c, "MessageTooLong")
            /\ UNCHANGED <<sent, socketq>>
       ELSE /\ client_return(c, "ok")
            /\ sent' = [sent EXCEPT ![c] = Some(cbuf[c])]
            /\ \/ /\ bound
                  /\ socketq' = Append(socketq, [from |-> c, data |-> cbuf[c]])
               \/ socketq' = socketq
    /\ UNCHANGED <<cbuf, coff, avars, mvars, cfgvars, svars, conns>>

-----------------------------------------------------------------------------
(***************************************************************************)
(* main, main.rs 16-60                                                     *)
(***************************************************************************)

\* What main returns.
main_return(res) ==
    /\ mres' = res
    /\ mpc' = "exit"

\* a main that does not look whether the address and the port are there
main_check_args_skipped ==
    /\ mpc = "check_args"
    /\ mpc' = "validate"
    /\ UNCHANGED <<margs, mres, called, avars, nvars>>

\* lines 31-36: both modes need the address and the port
main_check_args ==
    /\ mpc = "check_args"
    /\ IF margs.listen /\ (~margs.address.some \/ ~margs.port.some)
       THEN main_return("Listening mode requires both address and port.")
       ELSE IF ~margs.listen /\ (~margs.address.some \/ ~margs.port.some)
       THEN main_return("Client mode requires both address and port.")
       ELSE /\ mpc' = "validate"
            /\ mres' = mres
    /\ UNCHANGED <<margs, called, avars, nvars>>

\* lines 38-46: the address, if there is one, goes through is_valid_address
\* with the version the ip_version argument stands for
main_validate ==
    /\ mpc = "validate"
    /\ IF margs.address.some
       THEN /\ address' = margs.address.v
            /\ version' = IF margs.ip_version = "V4" THEN 4 ELSE 6
            /\ vpc' = "done"
            /\ valid' = is_valid_address(address', version')
            /\ IF valid'
               THEN /\ mpc' = "dispatch"
                    /\ mres' = mres
               ELSE main_return("Invalid IP address")
       ELSE /\ mpc' = "dispatch"
            /\ UNCHANGED <<mres, avars>>
    /\ UNCHANGED <<margs, called, nvars>>

\* lines 48-51: the protocol string main hands to the engine
ProtocolStr(p) == IF p = "Tcp" THEN "tcp" ELSE "udp"

\* a main that runs the client engine whatever args.listen says
main_dispatch_client ==
    /\ mpc = "dispatch"
    /\ called' = Append(called, "run_client")
    /\ cpc' = [cpc EXCEPT ![1] = "run_client"]
    /\ UNCHANGED svars
    /\ mpc' = "engine"
    /\ UNCHANGED <<margs, mres, avars, cfgvars, netvars, cbuf, coff, cres>>

\* lines 53-57: run_server if args.listen, run_client otherwise; the process
\* main runs as is the server, or the first of the clients
main_dispatch ==
    /\ mpc = "dispatch"
    /\ IF margs.listen
       THEN /\ called' = Append(called, "run_server")
            /\ spc' = "run_server"
            /\ UNCHANGED cpc
       ELSE /\ called' = Append(called, "run_client")
            /\ cpc' = [cpc EXCEPT ![1] = "run_client"]
            /\ UNCHANGED spc
    /\ mpc' = "engine"
    /\ UNCHANGED <<sres, bound, backlog, accept_errs, cur, rd_timeout, sbuf, amt,
                   nrecv, outcome, log, sink, file, clock>>
    /\ UNCHANGED <<margs, mres, avars, cfgvars, netvars, cbuf, coff, cres>>

\* the `?` of lines 54 and 56, and Ok(()) of line 59
main_engine_returned ==
    /\ mpc = "engine"
    /\ IF margs.listen
       THEN /\ spc = "returned"
            /\ main_return(sres)
       ELSE /\ cpc[1] = "done"
            /\ main_return(cres[1])
    /\ UNCHANGED <<margs, called, avars, nvars>>

-----------------------------------------------------------------------------
(***************************************************************************)
(* Specifications                                                          *)
(***************************************************************************)

\* the validator is not running
AddrIdle == address = "" /\ version = 4 /\ vpc = "idle" /\ valid = FALSE

\* no main is running
NoArgs == [address |-> None, port |-> None, ip_version |-> "V4",
           protocol |-> "Tcp", listen |-> FALSE]

MainOff == margs = NoArgs /\ mpc = "off" /\ mres = "none" /\ called = <<>>

\* the server and the clients before their first step
NetIdle ==
    /\ sres = "none"
    /\ bound = FALSE
    /\ backlog = <<>>
    /\ accept_errs = 0
    /\ cur = 0
    /\ rd_timeout = 0
    /\ waited = 0
    /\ handled_for = 0
    /\ sbuf = <<>>
    /\ amt = 0
    /\ nrecv = 0
    /\ outcome = [c \in Clients |-> "none"]
    /\ log = <<>>
    /\ sink = <<>>
    /\ file = NoFile
    /\ conns = [c \in Clients |-> NoConn]
    /\ socketq = <<>>
    /\ sent = [c \in Clients |-> None]
    /\ cbuf = [c \in Clients |-> <<>>]
    /\ coff = [c \in Clients |-> 0]
    /\ cres = [c \in Clients |-> "none"]

\* run_server and run_client called directly, as the tests call them
NetStart ==
    /\ NetIdle
    /\ spc = "run_server"
    /\ cpc = [c \in Clients |-> "run_client"]

Init ==
    /\ AddrIdle
    /\ MainOff
    /\ protocol \in {"tcp", "udp"}
    /\ sargs \in [timeout : Timeouts, exec : BOOLEAN, file : BOOLEAN]
    /\ cargs \in [timeout : Timeouts, file : BOOLEAN]
    /\ NetStart

Server ==
    \/ run_server
    \/ accept_ok
    \/ accept_err
    \/ tcp_set_read_timeout
    \/ tcp_read_wait
    \/ tcp_read
    \/ tcp_read_eof
    \/ tcp_read_timeout
    \/ tcp_read_err
    \/ tcp_route
    \/ udp_recv_from
    \/ udp_set_read_timeout
    \/ udp_route

Client(c) ==
    \/ prepare_buffer(c)
    \/ tcp_connect(c)
    \/ peer_idle(c)
    \/ udp_bind(c)
    \/ set_write_timeout(c)
    \/ tcp_write(c)
    \/ tcp_write_err(c)
    \/ tcp_client_done(c)
    \/ udp_send_to(c)

Next == Server \/ \E c \in Clients : Client(c)

Spec == Init /\ [][Next]_vars

-----------------------------------------------------------------------------
(***************************************************************************)
(* The validator on its own: is_valid_address applied to one input         *)
(***************************************************************************)

\* the fields an IPv4 input is put together from: every address class
\* is_global looks at, and fields that do not parse
V4First == {"0", "8", "10", "100", "127", "169", "172", "192", "198", "203",
            "240", "255", "999", "01", "x"}

V4Second == {"0", "16", "18", "51", "64", "128", "168", "254", "255"}

V4Third == {"0", "2", "100", "113", "255"}

V4Fourth == {"1", "9", "255", ""}

V4Inputs ==
    {a \o "." \o b \o "." \o c \o "." \o d :
        a \in V4First, b \in V4Second, c \in V4Third, d \in V4Fourth}
    \cup {"192.168.0.1", "127.0.0.1", "999.999.999.999", "invalid-ip", "",
          "1.2.3", "1.2.3.4.5", "8.8.8.8"}

\* IPv6 inputs: a head, "::" or ":", and a tail
V6Heads == {"", "1", "fe80", "fc00", "fd12", "2001:db8", "2001", "2606:4700",
            "64:ff9b:1", "100", "12345", "g", "1:2:3:4:5:6:7"}

V6Tails == {"", "1", "2", "ffff:1.2.3.4", "8", "1:2:3:4:5:6:7:8", "1.2.3"}

V6Inputs ==
    {h \o sep \o t : h \in V6Heads, sep \in {"::", ":"}, t \in V6Tails}
    \cup {"::1", "::", "invalid-ip", "", "127.0.0.1"}

\* the version argument: the two values main passes, and others
Versions == {4, 6, 0, 5}

InitAddr ==
    /\ address \in V4Inputs \cup V6Inputs
    /\ version \in Versions
    /\ vpc = "input"
    /\ valid = FALSE
    /\ MainOff
    /\ protocol = "tcp"
    /\ sargs = [timeout |-> 0, exec |-> FALSE, file |-> FALSE]
    /\ cargs = [timeout |-> 0, file |-> FALSE]
    /\ NetStart

\* the call, network.rs 12-22
Validate ==
    /\ vpc = "input"
    /\ valid' = is_valid_address(address, version)
    /\ vpc' = "done"
    /\ UNCHANGED <<address, version, mvars, nvars>>

NextAddr == Validate

SpecAddr == InitAddr /\ [][NextAddr]_vars

-----------------------------------------------------------------------------
(***************************************************************************)
(* One run of main, among processes that call the engines directly         *)
(***************************************************************************)

\* the port argument of the runs
Port == 8080

\* the command lines: the address and the port are positional, so that a
\* port is there only if an address is
MainArgs ==
    {a \in [address : {None, Some("8.8.8.8"), Some("192.168.0.1"),
                       Some("invalid-ip"), Some("::1"),
                       Some("2606:4700::1111")},
            port : {None, Some(Port)},
            ip_version : {"V4", "V6"},
            protocol : {"Tcp", "Udp"},
            listen : BOOLEAN] :
        a.port.some => a.address.some}

\* a run of main, which becomes the server or the client, the process at the
\* other end being an engine called directly; or no main, and the engines
\* called directly with a protocol that is neither "tcp" nor "udp"
InitMain ==
    /\ AddrIdle
    /\ NetIdle
    /\ sargs \in [timeout : Timeouts, exec : BOOLEAN, file : BOOLEAN]
    /\ cargs \in [timeout : Timeouts, file : BOOLEAN]
    /\ \/ /\ margs \in MainArgs
          /\ mpc = "check_args"
          /\ mres = "none"
          /\ called = <<>>
          /\ protocol = ProtocolStr(margs.protocol)
          /\ spc = IF margs.listen THEN "not_called" ELSE "run_server"
          /\ cpc = [c \in Clients |->
                      IF margs.listen /\ c = 1 THEN "run_client"
                      ELSE "not_called"]
       \/ /\ MainOff
          /\ protocol = "sctp"
          /\ spc = "run_server"
          /\ cpc = [c \in Clients |-> "run_client"]

Main ==
    \/ main_check_args
    \/ main_validate
    \/ main_dispatch
    \/ main_engine_returned

NextMain == Main \/ Server \/ \E c \in Clients : Client(c)

SpecMain == InitMain /\ [][NextMain]_vars

-----------------------------------------------------------------------------
(***************************************************************************)
(* Address validation                                                      *)
(***************************************************************************)

\* C1: is_valid_address(addr, 4) is true exactly when addr parses as a
\* dotted-quad IPv4 literal that is global, shared-space, private-range or
\* loopback, and false for every malformed string and every other address.
C1_V4ValidIffRoutableOrLocal ==
    (vpc = "done" /\ version = 4) =>
        LET ip == parse_Ipv4Addr(address)
        IN  valid = (/\ ip.some
                     /\ \/ v4_is_global(ip.v)
                        \/ v4_is_shared(ip.v)
                        \/ v4_is_private(ip.v)
                        \/ v4_is_loopback(ip.v))

\* C2: is_valid_address(addr, 6) is true exactly when addr parses as an IPv6
\* literal that is global or loopback, and false for every malformed string,
\* every other address, and every version other than 4 and 6.
C2_V6ValidIffGlobalOrLoopback ==
    /\ (vpc = "done" /\ version = 6) =>
          LET ip == parse_Ipv6Addr(address)
          IN  valid = (ip.some /\ (v6_is_global(ip.v) \/ v6_is_loopback(ip.v)))
    /\ (vpc = "done" /\ version \notin {4, 6}) => ~valid

-----------------------------------------------------------------------------
(***************************************************************************)
(* The server and the clients                                              *)
(***************************************************************************)

\* the received data the sinks were given for connection (or sender) c
DataTo(c) ==
    LET idx == {i \in 1..Len(sink) : sink[i].conn = c /\ sink[i].kind \in DataKinds}
        RECURSIVE Pick(_)
        Pick(i) == IF i > Len(sink) THEN <<>>
                   ELSE IF i \in idx THEN <<sink[i].data>> \o Pick(i + 1)
                   ELSE Pick(i + 1)
    IN  Pick(1)

\* handler results that come from the peer, the network or the sink rather
\* than from the handler's own calls
EnvFaults == {"TimedOut", "ConnectionReset", "SinkError"}

TcpLoop == {"accept", "set_read_timeout", "read", "route"}

\* C3: after a successful bind the TCP server never leaves its accept loop
\* because of a per-connection outcome: every accept error and every failed
\* handler adds one line to the log, run_server does not return, and the
\* server is back at accepting.
C3_TcpServerNeverLeavesLoop ==
    [][ (protocol = "tcp" /\ bound) =>
          /\ bound' /\ sres' = "none" /\ spc' \in TcpLoop
          /\ \A c \in Clients :
                (outcome[c] = "none" /\ outcome'[c] \notin {"none", "ok"}) =>
                    /\ log' = Append(log, [msg |-> "Failed to handle connection",
                                           conn |-> c])
                    /\ spc' = "accept"
          /\ accept_errs' # accept_errs =>
                /\ log' = Append(log, [msg |-> "Failed to accept connection",
                                       conn |-> 0])
                /\ spc' = "accept" ]_vars

\* an accept error, a read timeout and a sink error have happened, and the
\* server has accepted a connection after a failed one
C3_Witness ==
    /\ protocol = "tcp"
    /\ accept_errs > 0
    /\ \E c, d \in Clients :
          /\ outcome[c] = "TimedOut"
          /\ outcome[d] = "SinkError"
    /\ spc = "accept"
    /\ Len(log) = 3

\* C4: a timeout of zero means block without limit in every mode: with
\* timeout = 0 the TCP handler reads to the end and routes the buffer, the
\* UDP server routes its datagram and the clients transmit; setting the
\* timeout produces no error and no read or write times out.
C4_ZeroTimeoutBlocksWithoutLimit ==
    /\ (protocol = "tcp" /\ sargs.timeout = 0) =>
          \A c \in Clients :
             outcome[c] \notin {"none", "ConnectionReset", "SinkError"} =>
                 /\ outcome[c] = "ok"
                 /\ Len(DataTo(c)) = 1
    /\ (protocol = "udp" /\ sargs.timeout = 0 /\ spc = "returned" /\ nrecv = 1
        /\ sres # "SinkError") =>
          /\ sres = "ok"
          /\ Len(DataTo(cur)) = 1
    /\ cargs.timeout = 0 =>
          \A c \in Clients :
             (cpc[c] = "done" /\ cres[c] \notin {"NotFound", "ConnectionRefused",
                                                 "BrokenPipe", "MessageTooLong"}) =>
                 cres[c] = "ok"

\* C5: TCP round trip: when a client has sent its buffer B over TCP and
\* closed, and the server has handled that connection (no reset, no read
\* timeout, no sink failure), the sink was given exactly B, once.
C5_TcpRoundTrip ==
    protocol = "tcp" =>
        \A c \in Clients :
           (cres[c] = "ok" /\ outcome[c] \notin {"none"} \cup EnvFaults) =>
               DataTo(c) = <<cbuf[c]>>

\* every client has returned and the server has nothing left to do
Quiet ==
    /\ \A c \in Clients : cpc[c] = "done"
    /\ backlog = <<>>
    /\ cur = 0

C7_UdpOneDatagramThenOk ==
    (protocol = "udp" /\ spc = "returned" /\ nrecv > 0 /\ sres # "SinkError") =>
        /\ nrecv = 1
        /\ sres = "ok"
        /\ Len(DataTo(cur)) = 1

\* C8: UDP round trip: for every buffer B of 0..65535 bytes the client's send
\* succeeds as one datagram, and when the server has received and routed it
\* the sink was given exactly B, without padding.
C8_UdpRoundTrip ==
    protocol = "udp" =>
        \A c \in Clients :
           (cpc[c] = "done" /\ cres[c] # "NotFound" /\ BLen(cbuf[c]) <= UdpBufSize) =>
               /\ cres[c] = "ok"
               /\ sent[c] = Some(cbuf[c])
               /\ (spc = "returned" /\ nrecv = 1 /\ cur = c /\ sres # "SinkError") =>
                      DataTo(c) = <<cbuf[c]>>

\* C9: a UDP client whose buffer is longer than 65535 bytes returns a
\* size-exceeded error and puts nothing on the network.
C9_UdpOversizeRejected ==
    protocol = "udp" =>
        \A c \in Clients :
           (cpc[c] = "done" /\ BLen(cbuf[c]) > UdpBufSize) =>
               /\ cres[c] = "MessageTooLong"
               /\ sent[c] = None

\* C10: sink precedence, for TCP connections and UDP datagrams: only the
\* chosen sink is ever touched (the subprocess if exec is set, else the file
\* if file is set, else standard output; with exec set the file is never
\* created), and what a successful handler received went to it exactly once.
C10_SinkPrecedence ==
    /\ \A i \in 1..Len(sink) :
          sink[i].kind \in (IF sargs.exec THEN {"spawn", "stdin", "relay"}
                            ELSE IF sargs.file THEN {"create", "fwrite"}
                            ELSE {"stdout"})
    /\ file.exists => (sargs.file /\ ~sargs.exec)
    /\ \A c \in Clients :
          (\/ protocol = "tcp" /\ outcome[c] = "ok"
           \/ protocol = "udp" /\ sres = "ok" /\ cur = c) =>
              DataTo(c) = <<BTake(cbuf[c], IF protocol = "tcp" THEN coff[c]
                                           ELSE BLen(cbuf[c]))>>

\* exec and file are both set, a TCP connection's and a UDP datagram's data
\* went to the subprocess, and there is no file
C10_Witness ==
    /\ sargs.exec /\ sargs.file
    /\ ~file.exists
    /\ \E i \in 1..Len(sink) : sink[i].kind = "stdin" /\ sink[i].data # <<>>
    /\ \/ protocol = "tcp" /\ \E c \in Clients : outcome[c] = "ok"
       \/ protocol = "udp" /\ sres = "ok"

-----------------------------------------------------------------------------
(***************************************************************************)
(* The read timeout of the TCP server                                      *)
(***************************************************************************)

\* the server is reading from a peer that has connected, sends nothing and
\* does not close
ReadingSilentPeer ==
    /\ protocol = "tcp"
    /\ spc = "read"
    /\ cur # 0
    /\ cpc[cur] = "idle"

\* C11: with a non-zero read timeout T, a TCP server whose peer connects and
\* then neither sends nor closes has the timeout T in force on that stream,
\* spends no more than T seconds on the connection and is timed out after
\* exactly T, ends its handling with an error that is logged and not
\* returned, and is back at accept with the listener bound, where a later
\* connection is accepted and served.
C11_SilentPeerTimesOut ==
    /\ [](ReadingSilentPeer =>
            /\ sargs.timeout # 0
            /\ rd_timeout = sargs.timeout
            /\ handled_for <= sargs.timeout)
    /\ [](\A c \in Clients :
            (cpc[c] = "idle" /\ outcome[c] # "none") =>
               /\ outcome[c] \in {"TimedOut", "ConnectionReset", "InvalidInput",
                                  "SinkError"}
               /\ sres = "none"
               /\ bound
               /\ \E i \in 1..Len(log) :
                     log[i] = [msg |-> "Failed to handle connection", conn |-> c])
    /\ [][(ReadingSilentPeer /\ spc' # "read") =>
            /\ outcome'[cur] \in {"TimedOut", "ConnectionReset"}
            /\ outcome'[cur] = "TimedOut" => handled_for = sargs.timeout
            /\ spc' = "accept"
            /\ cur' = 0
            /\ sres' = "none"
            /\ bound']_vars

\* a silent peer was timed out, and the connection after it was served
C11_Witness ==
    /\ sargs.timeout # 0
    /\ cpc[1] = "idle"
    /\ outcome[1] = "TimedOut"
    /\ outcome[2] = "ok"
    /\ cres[2] = "ok"
    /\ cbuf[2] # <<>>
    /\ DataTo(2) = <<cbuf[2]>>

-----------------------------------------------------------------------------
(***************************************************************************)
(* main: configuration errors and dispatch                                 *)
(***************************************************************************)

\* the errors main reports itself, main.rs 33, 35 and 44
MainConfigErrors ==
    {"Listening mode requires both address and port.",
     "Client mode requires both address and port.",
     "Invalid IP address"}

\* the command line lacks the address or the port, or its address is not
\* valid for its ip_version
BadConfig ==
    \/ ~margs.address.some
    \/ ~margs.port.some
    \/ ~is_valid_address(margs.address.v,
                         IF margs.ip_version = "V4" THEN 4 ELSE 6)

\* main has invoked no engine, and the process it runs as has no socket and
\* has read, written and sent nothing
MainUntouched ==
    /\ called = <<>>
    /\ IF margs.listen
       THEN /\ spc = "not_called"
            /\ ~bound
            /\ backlog = <<>> /\ cur = 0 /\ nrecv = 0
            /\ sink = <<>> /\ file = NoFile
            /\ \A c \in Clients : conns[c] = NoConn
       ELSE \A c \in Clients :
               /\ cpc[c] = "not_called"
               /\ conns[c] = NoConn
               /\ sent[c] = None
               /\ cres[c] = "none"

\* C12: configuration errors come before any network I/O. If the address or
\* the port is missing, in listen or in client mode, or the address is not
\* valid for the declared IP version, main never gets to the dispatch: no
\* engine is invoked, no socket is bound, connected, read or written, and
\* what main returns is one of its own configuration errors.
C12_ConfigErrorsBeforeNetwork ==
    (mpc # "off" /\ BadConfig) =>
        /\ MainUntouched
        /\ mpc \in {"check_args", "validate", "exit"}
        /\ mpc = "exit" => mres \in MainConfigErrors
        /\ (mpc = "exit" /\ margs.address.some /\ margs.port.some)
              => (mres = "Invalid IP address" /\ vpc = "done" /\ ~valid)

\* main in listen mode has rejected its address, and a client that tried to
\* connect found nobody listening
C12_Witness ==
    /\ mpc = "exit"
    /\ margs.listen
    /\ margs.address.some /\ margs.port.some
    /\ mres = "Invalid IP address"
    /\ called = <<>>
    /\ cres[1] = "ConnectionRefused"

\* C13 as stated, in its last part: a protocol other than "tcp" and "udp"
\* makes run_server and run_client return the configuration error.
C13_InvalidProtocolIsConfigError ==
    protocol \notin {"tcp", "udp"} =>
        /\ spc = "returned" => sres = "Invalid protocol"
        /\ \A c \in Clients : cpc[c] = "done" => cres[c] = "Invalid protocol"

\* no socket of the other protocol, or of any, has been opened or used
NoTcp ==
    /\ backlog = <<>>
    /\ spc \notin {"accept", "set_read_timeout", "read", "route"}
    /\ \A c \in Clients :
          /\ conns[c] = NoConn
          /\ outcome[c] = "none"
          /\ cpc[c] \notin {"connect", "write_all", "idle"}

NoUdp ==
    /\ socketq = <<>> /\ nrecv = 0
    /\ spc \notin {"recv_from", "udp_set_read_timeout", "udp_route"}
    /\ \A c \in Clients :
          /\ sent[c] = None
          /\ cpc[c] \notin {"udp_bind", "send_to"}

\* C13: dispatch is pure routing. A run of main invokes at most one engine,
\* and once its configuration is accepted exactly one: run_server if listen
\* is set and run_client otherwise. "tcp" uses only the TCP handlers and
\* "udp" only the UDP ones. With any other protocol no socket is opened;
\* run_server returns the configuration error, and so does run_client once
\* it has read its input (an input file that cannot be opened is reported
\* first, as that error).
C13_DispatchIsPureRouting ==
    /\ Len(called) <= 1
    /\ mpc \in {"check_args", "validate", "dispatch"} => called = <<>>
    /\ (mpc = "engine" \/ (mpc = "exit" /\ mres \notin MainConfigErrors)) =>
          /\ called = <<IF margs.listen THEN "run_server" ELSE "run_client">>
          /\ IF margs.listen THEN spc # "not_called"
                              ELSE cpc[1] # "not_called"
    /\ (mpc = "exit" /\ called # <<>>) =>
          mres = IF margs.listen THEN sres ELSE cres[1]
    /\ protocol = "tcp" => NoUdp
    /\ protocol = "udp" => NoTcp
    /\ protocol \notin {"tcp", "udp"} =>
          /\ ~bound
          /\ NoTcp /\ NoUdp
          /\ sink = <<>>
          /\ spc = "returned" => sres = "Invalid protocol"
          /\ \A c \in Clients :
                cpc[c] = "done" =>
                   \/ cres[c] = "Invalid protocol"
                   \/ cres[c] = "NotFound" /\ cargs.file

\* main ran as a UDP server: it invoked run_server and nothing else, the
\* datagram went through the UDP handler, and main returned Ok
C13_Witness ==
    /\ mpc = "exit"
    /\ margs.listen
    /\ margs.protocol = "Udp"
    /\ called = <<"run_server">>
    /\ mres = "ok"
    /\ nrecv = 1
    /\ sink # <<>>

-----------------------------------------------------------------------------
(***************************************************************************)
(* The UDP server: the receive and the read timeout                        *)
(***************************************************************************)

\* C14 as stated: a UDP server with a non-zero timeout to which no datagram
\* comes does not stay blocked in its receive: when every client has returned
\* and nothing is queued at the socket, the server has returned an error.
C14_UdpReceiveTimesOut ==
    (/\ protocol = "udp"
     /\ sargs.timeout # 0
     /\ spc # "run_server"
     /\ Quiet
     /\ socketq = <<>>
     /\ nrecv = 0)
        => (spc = "returned" /\ sres \in {"TimedOut", "AddrInUse"})

\* C15: the UDP server binds, then receives once, then sets the read timeout,
\* then routes. While it is in the receive no timeout is in effect, whatever
\* the configured value, and only a datagram ends the receive; the timeout
\* is set once, after the receive and before anything goes to the sink.
C15_UdpReceiveBeforeTimeout ==
    /\ [](protocol = "udp" =>
            /\ nrecv <= 1
            /\ spc = "recv_from" =>
                  (bound /\ rd_timeout = 0 /\ nrecv = 0 /\ sink = <<>>)
            /\ spc = "udp_set_read_timeout" =>
                  (bound /\ rd_timeout = 0 /\ nrecv = 1 /\ sink = <<>>)
            /\ rd_timeout # 0 => (rd_timeout = sargs.timeout /\ nrecv = 1)
            /\ sink # <<>> => (rd_timeout # 0 /\ spc = "returned"))
    /\ [][protocol = "udp" =>
            /\ (spc = "recv_from" /\ spc' # spc) =>
                  (socketq # <<>> /\ nrecv' = 1 /\ spc' = "udp_set_read_timeout")
            /\ rd_timeout' # rd_timeout =>
                  /\ spc = "udp_set_read_timeout"
                  /\ rd_timeout = 0
                  /\ rd_timeout' = sargs.timeout
                  /\ spc' = "udp_route"
            /\ sink' # sink => (spc = "udp_route" /\ rd_timeout = sargs.timeout)]_vars

\* a datagram was received with no timeout in effect, the timeout was set,
\* and the datagram went to the sink
C15_Witness ==
    /\ protocol = "udp"
    /\ spc = "returned"
    /\ sres = "ok"
    /\ nrecv = 1
    /\ rd_timeout = sargs.timeout
    /\ cur # 0
    /\ DataTo(cur) = <<cbuf[cur]>>

-----------------------------------------------------------------------------
(***************************************************************************)
(* The TCP server: what a read timeout does to the bytes received          *)
(***************************************************************************)

\* C16 as stated: when the read timeout ends the reading of a connection
\* that has delivered some bytes, those bytes go to the sink as they do when
\* the peer closes.
C16_TimeoutRoutesBytesReceived ==
    [][(/\ protocol = "tcp"
        /\ spc = "read"
        /\ sbuf # <<>>
        /\ spc' # "read"
        /\ outcome'[cur] = "TimedOut")
          => \E i \in 1..Len(sink') :
                /\ sink'[i].conn = cur
                /\ sink'[i].kind \in DataKinds
                /\ sink'[i].data = sbuf]_vars

-----------------------------------------------------------------------------
(***************************************************************************)
(* The client: one buffer, one attempt                                     *)
(***************************************************************************)

\* how far a run_client invocation has got
Stage(pc) ==
    CASE pc \in {"not_called", "run_client"}  -> 0
      [] pc \in {"connect", "udp_bind"}       -> 1
      [] pc = "set_write_timeout"             -> 2
      [] pc \in {"write_all", "send_to"}      -> 3
      [] pc = "done"                          -> 4

\* the client processes that are run_client invocations
Invocations == {c \in Clients : cpc[c] # "idle"}

\* C17: the client has its whole buffer before it touches the network, and
\* tries once. Until the input is read to its end there is no connection and
\* nothing sent; an input that cannot be read makes run_client return that
\* error with no network operation at all; the buffer never changes once
\* read; every step takes the invocation forward, so that it connects or
\* binds at most once and sends its buffer at most once; and every failure
\* ends the invocation with that error as its result.
C17_ClientBufferThenOneAttempt ==
    /\ [](\A c \in Invocations :
            /\ cpc[c] = "run_client" =>
                  (conns[c] = NoConn /\ sent[c] = None /\ coff[c] = 0
                   /\ cres[c] = "none")
            /\ cres[c] = "NotFound" =>
                  (cargs.file /\ cpc[c] = "done" /\ conns[c] = NoConn
                   /\ sent[c] = None /\ coff[c] = 0
                   /\ \A i \in 1..Len(backlog) : backlog[i] # c)
            /\ (cpc[c] = "done") <=> (cres[c] # "none")
            /\ sent[c].some => (sent[c].v = cbuf[c] /\ cpc[c] = "done")
            /\ coff[c] <= BLen(cbuf[c]))
    /\ [][\A c \in Clients :
            cpc'[c] # "idle" =>
               /\ cpc'[c] # cpc[c] => Stage(cpc'[c]) > Stage(cpc[c])
               /\ cpc[c] # "run_client" => cbuf'[c] = cbuf[c]
               /\ conns'[c].state # conns[c].state => cpc[c] = "connect"
               /\ sent'[c] # sent[c] => (cpc[c] = "send_to" /\ ~sent[c].some)
               /\ coff'[c] # coff[c] =>
                     (cpc[c] = "write_all" /\ coff'[c] > coff[c])
               /\ cres'[c] # cres[c] =>
                     (cres[c] = "none" /\ cpc'[c] = "done")]_vars

\* one invocation could not open its input file and left the network alone;
\* another read its input, connected once and delivered its buffer
C17_Witness ==
    /\ cpc[1] = "done"
    /\ cres[1] = "NotFound"
    /\ conns[1] = NoConn
    /\ cres[2] = "ok"
    /\ cbuf[2] # <<>>
    /\ DataTo(2) = <<cbuf[2]>>

-----------------------------------------------------------------------------
(***************************************************************************)
(* The TCP server: one connection at a time                                *)
(***************************************************************************)

\* the connections the server has accepted and whose handler has not returned
InHandler ==
    {c \in Clients :
        /\ conns[c].state = "established"
        /\ \A i \in 1..Len(backlog) : backlog[i] # c
        /\ outcome[c] = "none"}

\* the sink events of one connection are next to one another
SinkNotInterleaved ==
    \A i, j, k \in 1..Len(sink) :
        (i < j /\ j < k /\ sink[i].conn = sink[k].conn) =>
            sink[j].conn = sink[i].conn

\* C18: the TCP server handles its connections strictly one at a time. At
\* most one accepted connection has a handler that has not returned, and it
\* is the one being read or routed; a connection is accepted only when the
\* handler of every connection accepted before has returned, with success or
\* with an error; and in the sink the data of one connection is never mixed
\* with that of another, each connection giving at most one buffer.
C18_TcpOneConnectionAtATime ==
    /\ [](protocol = "tcp" =>
            /\ Cardinality(InHandler) <= 1
            /\ InHandler = IF cur = 0 THEN {} ELSE {cur}
            /\ (cur # 0) <=> (spc \in {"set_read_timeout", "read", "route"})
            /\ SinkNotInterleaved
            /\ \A c \in Clients : Len(DataTo(c)) <= 1)
    /\ [][protocol = "tcp" =>
            /\ (cur' # cur /\ cur' # 0) =>
                  /\ spc = "accept"
                  /\ InHandler = {}
                  /\ cur' = Head(backlog)
            /\ sink' # sink =>
                  /\ cur # 0
                  /\ \A i \in Len(sink) + 1..Len(sink') : sink'[i].conn = cur
            /\ \A c \in Clients :
                  outcome'[c] # outcome[c] => (c = cur /\ outcome[c] = "none")]_vars

\* a connection is being read while a second one, established and with its
\* data already sent, waits unaccepted
C18_Witness ==
    /\ protocol = "tcp"
    /\ spc = "read"
    /\ cur = 1
    /\ sbuf # <<>>
    /\ backlog = <<2>>
    /\ conns[2].c2s # <<>>

\* C19: the read timeout bounds each read, not the handling of a connection.
\* A connection is timed out only when one read has waited for the whole
\* timeout with nothing arriving; every read that returns bytes starts the
\* wait afresh, so that a peer whose bytes keep coming in time is never timed
\* out however long the connection lasts; and as long as it is handled no
\* other connection is accepted or served.
C19_TimeoutPerRead ==
    /\ [](protocol = "tcp" /\ spc = "read" =>
            /\ rd_timeout = sargs.timeout
            /\ waited <= rd_timeout
            /\ waited <= handled_for)
    /\ [][(protocol = "tcp" /\ spc = "read") =>
            /\ outcome'[cur] = "TimedOut" =>
                  (waited = rd_timeout /\ conns[cur].c2s = <<>>
                   /\ conns[cur].cli_open)
            /\ BLen(sbuf') > BLen(sbuf) =>
                  (spc' = "read" /\ cur' = cur /\ waited' = 0
                   /\ handled_for' = handled_for /\ outcome' = outcome)
            /\ handled_for' # handled_for =>
                  \/ handled_for' = handled_for + 1 /\ waited' = waited + 1
                  \/ handled_for' = 0 /\ spc' = "accept"
            /\ cur' \in {cur, 0}
            /\ \A c \in Clients \ {cur} : outcome'[c] = outcome[c]
            /\ \A i \in 1..Len(backlog) : backlog'[i] = backlog[i]]_vars

\* a connection has lasted longer than the timeout, each of its reads having
\* got bytes in time, and is being routed while another connection waits
C19_Witness ==
    /\ protocol = "tcp"
    /\ spc = "route"
    /\ handled_for > rd_timeout
    /\ rd_timeout > 0
    /\ sbuf # <<>>
    /\ backlog # <<>>

-----------------------------------------------------------------------------
(***************************************************************************)
(* The file sink of the TCP server                                         *)
(***************************************************************************)

\* the connections that wrote the file, in the order they did
FileWriters ==
    LET RECURSIVE Pick(_)
        Pick(i) == IF i > Len(sink) THEN <<>>
                   ELSE IF sink[i].kind = "fwrite"
                        THEN <<sink[i].conn>> \o Pick(i + 1)
                        ELSE Pick(i + 1)
    IN  Pick(1)

\* what the server received on connection c when its read ended with the
\* peer's close: everything the peer wrote
Received(c) == BTake(cbuf[c], coff[c])

=============================================================================
